---- MODULE Spec2Model ----
(***************************************************************************)
(* Usage accounting and entitlement gating of app.py: the usage.json       *)
(* record set, the /upload gate and increment_usage, the Stripe checkout   *)
(* provisioning of _create_stripe_session and the /webhook handler.        *)
(* Each request handler runs in a request slot and is cut into steps at    *)
(* its accesses to usage.json and at its external calls, so that requests  *)
(* served by different threads or worker processes can interleave.         *)
(***************************************************************************)
EXTENDS Integers, Sequences, FiniteSets, TLC

(* ------------------------------ bounds --------------------------------- *)
NumProcs == 2      \* request slots served at the same time
MaxCust == 2       \* customers the payment processor will create
MaxSess == 2       \* checkout sessions the payment processor will create
MaxFiles == 2      \* .js/.jsx files in an uploaded archive
MaxCycles == 4     \* completed upload cycles followed for one user

(* ------------------------- program constants --------------------------- *)
FREE_LIMIT == 3

Procs == 1..NumProcs
Users == {"a@x.com", "b@x.com"}
ScenUser == "a@x.com"                \* the user of the free-quota scenario
NoUser == ""                        \* absent or empty User-ID / user_id
UserInputs == Users \cup {NoUser}
None == 0                           \* Python None / JSON null
CustIds == 1..MaxCust
COMPLETED == "checkout.session.completed"
EventTypes == {COMPLETED, "invoice.paid"}
RefactorOutcomes == {"text", "empty", "raise"}
OutcomeSeqs == UNION {[1..n -> RefactorOutcomes] : n \in 0..MaxFiles}

VARIABLES
    store,           \* content of usage.json as load_data() returns it
    customers,       \* payment processor: customers[i] is the email of customer i
    stripeSessions,  \* payment processor: stripeSessions[i] is the customer of session i
    pc,              \* per request slot: position in the handler
    kind,            \* per request slot: the route being served
    user,            \* per request slot: user_id
    data,            \* per request slot: the dict loaded by load_data()
    gate,            \* per request slot: outcome of the free-limit check
    outs,            \* per request slot: what _refactor did for each .js/.jsx file
    count,           \* per request slot: files refactored
    evType,          \* per request slot: event["type"] of a verified webhook event
    evCust,          \* per request slot: sess["customer"] of the webhook event
    result,          \* per request slot: HTTP status of the response, 0 while running
    sessUrl,         \* per request slot: checkout session returned, 0 if none
    extFail,         \* per request slot: external call that failed in this request
    log,             \* per request slot: the calls made so far that read or write
                     \* usage.json, reach the payment processor or record usage
    pre,             \* per request slot: usage.json when the request arrived, kept
                     \* while the request is the only one in flight
    scen             \* completed cycles of gate check + increment_usage(ScenUser, 1)
                     \* in a run served one request at a time; -1 once two requests
                     \* overlapped or ScenUser recorded another amount

vars == <<store, customers, stripeSessions, pc, kind, user, data, gate, outs, count,
          evType, evCust, result, sessUrl, extFail, log, pre, scen>>

stripeVars == <<customers, stripeSessions>>

(* ----------------------- dicts as Python keeps them --------------------- *)
\* A dict of records is a sequence of <<key, record>> pairs in insertion
\* order (json.load and dict keep it); a record is a function from the keys
\* it holds to their values.
EmptyData == << >>
EmptyRec == [k \in {} |-> 0]
DefaultRec == [used |-> 0, subscribed |-> FALSE]

Keys(d) == {d[i][1] : i \in 1..Len(d)}
Has(d, u) == u \in Keys(d)
IndexOf(d, u) == CHOOSE i \in 1..Len(d) : d[i][1] = u
Get(d, u) == d[IndexOf(d, u)][2]
SetDefault(d, u, r) == IF Has(d, u) THEN d ELSE Append(d, <<u, r>>)
SetKey(r, k, v) == [f \in DOMAIN r \cup {k} |-> IF f = k THEN v ELSE r[f]]
PutRec(d, u, r) == [d EXCEPT ![IndexOf(d, u)] = <<u, r>>]
RecGet(r, k) == IF k \in DOMAIN r THEN r[k] ELSE None

load_data == store

get_user_record(u) == Get(SetDefault(load_data, u, DefaultRec), u)

\* rec["used"] >= FREE_LIMIT and not rec["subscribed"], with the KeyError of
\* a missing key; "and" evaluates its right operand only when the left is true.
GateDecision(r) ==
    IF "used" \notin DOMAIN r THEN "KeyError"
    ELSE IF r["used"] >= FREE_LIMIT
         THEN IF "subscribed" \notin DOMAIN r THEN "KeyError"
              ELSE IF ~r["subscribed"] THEN "QuotaExceeded" ELSE "Allowed"
         ELSE "Allowed"

\* MarkLoop with the comparison of the customer lost: the first record is
\* marked whatever its stripe_customer_id.
MarkLoopFirst(d, cust, i) ==
    IF i > Len(d) THEN d
    ELSE [d EXCEPT ![i] = <<d[i][1], SetKey(d[i][2], "subscribed", TRUE)>>]

\* MarkLoop with the assignment moved behind the loop: when no record
\* matches, the record the loop ended on is marked.
RECURSIVE MarkLoopElse(_, _, _)
MarkLoopElse(d, cust, i) ==
    IF i > Len(d) THEN d
    ELSE IF RecGet(d[i][2], "stripe_customer_id") = cust \/ i = Len(d)
         THEN [d EXCEPT ![i] = <<d[i][1], SetKey(d[i][2], "subscribed", TRUE)>>]
         ELSE MarkLoopElse(d, cust, i + 1)

\* for uid, rec in data.items(): if rec.get("stripe_customer_id") == cust:
\*     rec["subscribed"] = True; break
RECURSIVE MarkLoop(_, _, _)
MarkLoop(d, cust, i) ==
    IF i > Len(d) THEN d
    ELSE IF RecGet(d[i][2], "stripe_customer_id") = cust
         THEN [d EXCEPT ![i] = <<d[i][1], SetKey(d[i][2], "subscribed", TRUE)>>]
         ELSE MarkLoop(d, cust, i + 1)

(* ------------------------------- Init ---------------------------------- *)
Init ==
    /\ store = EmptyData
    /\ customers = << >>
    /\ stripeSessions = << >>
    /\ pc = [p \in Procs |-> "idle"]
    /\ kind = [p \in Procs |-> "none"]
    /\ user = [p \in Procs |-> NoUser]
    /\ data = [p \in Procs |-> EmptyData]
    /\ gate = [p \in Procs |-> "none"]
    /\ outs = [p \in Procs |-> << >>]
    /\ count = [p \in Procs |-> 0]
    /\ evType = [p \in Procs |-> "none"]
    /\ evCust = [p \in Procs |-> None]
    /\ result = [p \in Procs |-> 0]
    /\ sessUrl = [p \in Procs |-> 0]
    /\ extFail = [p \in Procs |-> "none"]
    /\ log = [p \in Procs |-> << >>]
    /\ pre = [p \in Procs |-> EmptyData]
    /\ scen = 0

\* The request in slot p ends with HTTP status s.
Respond(p, s) ==
    /\ pc' = [pc EXCEPT ![p] = "done"]
    /\ result' = [result EXCEPT ![p] = s]

\* The request in slot p makes the calls evs, in this order.
Log(p, evs) == log' = [log EXCEPT ![p] = @ \o evs]

\* A request arrives in the idle slot p.
Arrive(p, k, u) ==
    /\ pc[p] = "idle"
    /\ kind' = [kind EXCEPT ![p] = k]
    /\ user' = [user EXCEPT ![p] = u]
    /\ LET alone == \A q \in Procs : pc[q] = "idle"
       IN /\ pre' = [q \in Procs |-> IF q = p /\ alone THEN store ELSE EmptyData]
          /\ scen' = IF alone THEN scen ELSE -1

(* ------------------------------ /upload -------------------------------- *)
\* UploadStart without the User-ID check: the request goes on to the gate
\* whatever the header holds.
UploadStartNoCheck(p, u) ==
    /\ Arrive(p, "upload", u)
    /\ u = ScenUser => scen < MaxCycles
    /\ pc' = [pc EXCEPT ![p] = "u_gate"]
    /\ UNCHANGED <<store, stripeVars, data, gate, count, evType, evCust, result,
                   sessUrl, extFail, outs, log>>

\* user_id = request.headers.get("User-ID"); if not user_id: 400
UploadStart(p, u) ==
    /\ Arrive(p, "upload", u)
    /\ u = ScenUser => scen < MaxCycles
    /\ IF u = NoUser
       THEN Respond(p, 400)
       ELSE /\ pc' = [pc EXCEPT ![p] = "u_gate"]
            /\ UNCHANGED result
    /\ UNCHANGED <<store, stripeVars, data, gate, count, evType, evCust, sessUrl,
                   extFail, outs, log>>

\* UploadGate as a gate that consumes: an allowed check counts one use and
\* saves the record.
UploadGateConsumes(p, zip) ==
    /\ pc[p] = "u_gate"
    /\ LET r == get_user_record(user[p])
           g == GateDecision(r)
       IN /\ gate' = [gate EXCEPT ![p] = g]
          /\ store' = IF g # "Allowed" THEN store
                      ELSE PutRec(SetDefault(load_data, user[p], DefaultRec), user[p],
                                  SetKey(r, "used", r["used"] + 1))
          /\ IF g = "KeyError" THEN Respond(p, 500)
             ELSE IF g = "QuotaExceeded"
                  THEN /\ pc' = [pc EXCEPT ![p] = "css_load"]
                       /\ UNCHANGED result
                  ELSE IF ~zip THEN Respond(p, 400)
                       ELSE /\ pc' = [pc EXCEPT ![p] = "u_work"]
                            /\ UNCHANGED result
    /\ Log(p, <<"load">>)
    /\ UNCHANGED <<stripeVars, kind, user, data, count, evType, evCust,
                   sessUrl, extFail, pre, scen, outs>>

\* rec = get_user_record(user_id); the free-limit check; the file validation
\* (zip: the request has a .zip file part)
UploadGate(p, zip) ==
    /\ pc[p] = "u_gate"
    /\ LET g == GateDecision(get_user_record(user[p]))
       IN /\ gate' = [gate EXCEPT ![p] = g]
          /\ IF g = "KeyError" THEN Respond(p, 500)
             ELSE IF g = "QuotaExceeded"
                  THEN /\ pc' = [pc EXCEPT ![p] = "css_load"]
                       /\ UNCHANGED result
                  ELSE IF ~zip THEN Respond(p, 400)
                       ELSE /\ pc' = [pc EXCEPT ![p] = "u_work"]
                            /\ UNCHANGED result
    /\ Log(p, <<"load">>)
    /\ UNCHANGED <<store, stripeVars, kind, user, data, count, evType, evCust,
                   sessUrl, extFail, pre, scen, outs>>

\* RefactorLoop without "if not new: continue": a file for which _refactor
\* returned nothing is counted too.
RECURSIVE RefactorLoopNoSkip(_, _, _)
RefactorLoopNoSkip(os, i, cnt) ==
    IF i > Len(os) THEN cnt
    ELSE RefactorLoopNoSkip(os, i + 1, cnt + 1)

\* The loop over the .js/.jsx files of the archive: outs[i] is what _refactor
\* does for file i. new = _refactor(code); if not new: continue; count += 1
RECURSIVE RefactorLoop(_, _, _)
RefactorLoop(os, i, cnt) ==
    IF i > Len(os) THEN cnt
    ELSE RefactorLoop(os, i + 1, IF os[i] = "text" THEN cnt + 1 ELSE cnt)

\* UploadWork without the count == 0 check: usage is recorded even when no
\* file was refactored.
UploadWorkNoCheck(p, os) ==
    /\ pc[p] = "u_work"
    /\ count' = [count EXCEPT ![p] = RefactorLoop(os, 1, 0)]
    /\ pc' = [pc EXCEPT ![p] = "inc_get"]
    /\ extFail' = [extFail EXCEPT ![p] =
           IF \E i \in 1..Len(os) : os[i] = "raise" THEN "llm" ELSE @]
    /\ outs' = [outs EXCEPT ![p] = os]
    /\ UNCHANGED <<store, stripeVars, kind, user, data, gate, evType, evCust, result,
                   sessUrl, pre, scen, log>>

\* The archive is unpacked and its files refactored; if count == 0: 500
UploadWork(p, os) ==
    /\ pc[p] = "u_work"
    /\ LET cnt == RefactorLoop(os, 1, 0)
       IN /\ count' = [count EXCEPT ![p] = cnt]
          /\ IF cnt = 0
             THEN Respond(p, 500)
             ELSE /\ pc' = [pc EXCEPT ![p] = "inc_get"]
                  /\ UNCHANGED result
    /\ extFail' = [extFail EXCEPT ![p] =
           IF \E i \in 1..Len(os) : os[i] = "raise" THEN "llm" ELSE @]
    /\ outs' = [outs EXCEPT ![p] = os]
    /\ UNCHANGED <<store, stripeVars, kind, user, data, gate, evType, evCust,
                   sessUrl, pre, scen, log>>

\* increment_usage: rec = get_user_record(user_id); rec["used"] += amount.
\* rec belongs to the dict get_user_record loaded, which nothing saves.
IncGet(p) ==
    /\ pc[p] = "inc_get"
    /\ IF "used" \notin DOMAIN get_user_record(user[p])
       THEN Respond(p, 500)
       ELSE /\ pc' = [pc EXCEPT ![p] = "inc_load"]
            /\ UNCHANGED result
    /\ Log(p, <<"record", "load">>)
    /\ UNCHANGED <<store, stripeVars, kind, user, data, gate, count, evType, evCust,
                   sessUrl, extFail, pre, scen, outs>>

\* increment_usage: the argument of save_data(load_data())
IncLoad(p) ==
    /\ pc[p] = "inc_load"
    /\ data' = [data EXCEPT ![p] = load_data]
    /\ pc' = [pc EXCEPT ![p] = "inc_save"]
    /\ Log(p, <<"load">>)
    /\ UNCHANGED <<store, stripeVars, kind, user, gate, count, evType, evCust,
                   result, sessUrl, extFail, pre, scen, outs>>

\* increment_usage: save_data(...); then the archive of results is sent
IncSave(p) ==
    /\ pc[p] = "inc_save"
    /\ store' = data[p]
    /\ Respond(p, 200)
    /\ scen' = IF user[p] # ScenUser THEN scen
               ELSE IF count[p] = 1 /\ scen >= 0 THEN scen + 1 ELSE -1
    /\ Log(p, <<"save">>)
    /\ UNCHANGED <<stripeVars, kind, user, data, gate, count, evType, evCust,
                   sessUrl, extFail, pre, outs>>

(* ------------- /create-checkout-session and /checkout ------------------ *)
\* user_id = body.get("user_id") / request.args.get("user_id"); if not user_id: 400
CheckoutStart(p, route, u) ==
    /\ route \in {"create", "redirect"}
    /\ Arrive(p, route, u)
    /\ IF u = NoUser
       THEN Respond(p, 400)
       ELSE /\ pc' = [pc EXCEPT ![p] = "css_load"]
            /\ UNCHANGED result
    /\ UNCHANGED <<store, stripeVars, data, gate, count, evType, evCust, sessUrl,
                   extFail, outs, log>>

\* CssLoad without the "stripe_customer_id" not in rec check: a customer is
\* created on every call.
CssLoadAlways(p) ==
    /\ pc[p] = "css_load"
    /\ data' = [data EXCEPT ![p] = SetDefault(load_data, user[p], EmptyRec)]
    /\ pc' = [pc EXCEPT ![p] = "css_cust"]
    /\ Log(p, <<"load">>)
    /\ UNCHANGED <<store, stripeVars, kind, user, gate, count, evType, evCust,
                   result, sessUrl, extFail, pre, scen, outs>>

\* _create_stripe_session: data = load_data(); rec = data.setdefault(user_id, {});
\* if "stripe_customer_id" not in rec
CssLoad(p) ==
    /\ pc[p] = "css_load"
    /\ LET d == SetDefault(load_data, user[p], EmptyRec)
       IN /\ data' = [data EXCEPT ![p] = d]
          /\ pc' = [pc EXCEPT ![p] =
                IF "stripe_customer_id" \notin DOMAIN Get(d, user[p])
                THEN "css_cust" ELSE "css_sess"]
    /\ Log(p, <<"load">>)
    /\ UNCHANGED <<store, stripeVars, kind, user, gate, count, evType, evCust,
                   result, sessUrl, extFail, pre, scen, outs>>

\* cust = stripe.Customer.create(email=user_id); rec["stripe_customer_id"] = cust.id
CssCustomer(p, ok) ==
    /\ pc[p] = "css_cust"
    /\ IF ok
       THEN /\ Len(customers) < MaxCust
            /\ customers' = Append(customers, user[p])
            /\ data' = [data EXCEPT ![p] = PutRec(@, user[p],
                   SetKey(Get(@, user[p]), "stripe_customer_id", Len(customers) + 1))]
            /\ pc' = [pc EXCEPT ![p] = "css_save"]
            /\ UNCHANGED <<result, extFail>>
       ELSE /\ Respond(p, 500)
            /\ extFail' = [extFail EXCEPT ![p] = "customer"]
            /\ UNCHANGED <<customers, data>>
    /\ Log(p, <<"customer">>)
    /\ UNCHANGED <<store, stripeSessions, kind, user, gate, count, evType, evCust,
                   sessUrl, pre, scen, outs>>

\* save_data(data)
CssSave(p) ==
    /\ pc[p] = "css_save"
    /\ store' = data[p]
    /\ pc' = [pc EXCEPT ![p] = "css_sess"]
    /\ Log(p, <<"save">>)
    /\ UNCHANGED <<stripeVars, kind, user, data, gate, count, evType, evCust, result,
                   sessUrl, extFail, pre, scen, outs>>

\* The response the caller of _create_stripe_session builds from the session.
SessionStatus(k) ==
    IF k = "upload" THEN 402 ELSE IF k = "redirect" THEN 303 ELSE 200

\* return stripe.checkout.Session.create(customer=rec["stripe_customer_id"], ...)
CssSession(p, ok) ==
    /\ pc[p] = "css_sess"
    /\ IF ok
       THEN /\ Len(stripeSessions) < MaxSess
            /\ stripeSessions' = Append(stripeSessions,
                                        Get(data[p], user[p])["stripe_customer_id"])
            /\ sessUrl' = [sessUrl EXCEPT ![p] = Len(stripeSessions) + 1]
            /\ Respond(p, SessionStatus(kind[p]))
            /\ UNCHANGED extFail
       ELSE /\ Respond(p, 500)
            /\ extFail' = [extFail EXCEPT ![p] = "session"]
            /\ UNCHANGED <<stripeSessions, sessUrl>>
    /\ Log(p, <<"session">>)
    /\ UNCHANGED <<store, customers, kind, user, data, gate, count, evType, evCust,
                   pre, scen, outs>>

(* ------------------------------ /webhook ------------------------------- *)
\* WebhookStart without the check of event["type"]: every verified event is
\* handled as a completed checkout.
WebhookStartAnyType(p, sigOk, type, cust) ==
    /\ Arrive(p, "webhook", NoUser)
    /\ evType' = [evType EXCEPT ![p] = IF sigOk THEN type ELSE "none"]
    /\ evCust' = [evCust EXCEPT ![p] = IF sigOk THEN cust ELSE None]
    /\ IF ~sigOk THEN Respond(p, 400)
       ELSE /\ pc' = [pc EXCEPT ![p] = "w_load"]
            /\ UNCHANGED result
    /\ UNCHANGED <<store, stripeVars, data, gate, count, sessUrl, extFail, outs, log>>

\* WebhookStart without the abort(400): an event whose signature failed is
\* handled as a completed checkout of the customer in its payload.
WebhookStartNoAbort(p, sigOk, type, cust) ==
    /\ Arrive(p, "webhook", NoUser)
    /\ evType' = [evType EXCEPT ![p] = IF sigOk THEN type ELSE "none"]
    /\ evCust' = [evCust EXCEPT ![p] = IF sigOk /\ type # COMPLETED THEN None ELSE cust]
    /\ IF sigOk /\ type # COMPLETED
       THEN Respond(p, 200)
       ELSE /\ pc' = [pc EXCEPT ![p] = "w_load"]
            /\ UNCHANGED result
    /\ UNCHANGED <<store, stripeVars, data, gate, count, sessUrl, extFail, outs, log>>

\* event = stripe.Webhook.construct_event(...) or abort(400);
\* if event["type"] == "checkout.session.completed": ...; else 200
WebhookStart(p, sigOk, type, cust) ==
    /\ Arrive(p, "webhook", NoUser)
    /\ evType' = [evType EXCEPT ![p] = IF sigOk THEN type ELSE "none"]
    /\ evCust' = [evCust EXCEPT ![p] = IF sigOk /\ type = COMPLETED THEN cust ELSE None]
    /\ IF ~sigOk THEN Respond(p, 400)
       ELSE IF type = COMPLETED
            THEN /\ pc' = [pc EXCEPT ![p] = "w_load"]
                 /\ UNCHANGED result
            ELSE Respond(p, 200)
    /\ UNCHANGED <<store, stripeVars, data, gate, count, sessUrl, extFail, outs, log>>

\* cust = sess["customer"]; data = load_data(); the marking loop
WebhookLoad(p) ==
    /\ pc[p] = "w_load"
    /\ data' = [data EXCEPT ![p] = MarkLoop(load_data, evCust[p], 1)]
    /\ pc' = [pc EXCEPT ![p] = "w_save"]
    /\ Log(p, <<"load">>)
    /\ UNCHANGED <<store, stripeVars, kind, user, gate, count, evType, evCust,
                   result, sessUrl, extFail, pre, scen, outs>>

\* save_data(data); return "", 200
WebhookSave(p) ==
    /\ pc[p] = "w_save"
    /\ store' = data[p]
    /\ Respond(p, 200)
    /\ Log(p, <<"save">>)
    /\ UNCHANGED <<stripeVars, kind, user, data, gate, count, evType, evCust,
                   sessUrl, extFail, pre, scen, outs>>

(* ------------------------------ responses ------------------------------ *)
\* The response has been sent; the slot serves the next request.
Return(p) ==
    /\ pc[p] = "done"
    /\ pc' = [pc EXCEPT ![p] = "idle"]
    /\ kind' = [kind EXCEPT ![p] = "none"]
    /\ user' = [user EXCEPT ![p] = NoUser]
    /\ data' = [data EXCEPT ![p] = EmptyData]
    /\ gate' = [gate EXCEPT ![p] = "none"]
    /\ outs' = [outs EXCEPT ![p] = << >>]
    /\ count' = [count EXCEPT ![p] = 0]
    /\ evType' = [evType EXCEPT ![p] = "none"]
    /\ evCust' = [evCust EXCEPT ![p] = None]
    /\ result' = [result EXCEPT ![p] = 0]
    /\ sessUrl' = [sessUrl EXCEPT ![p] = 0]
    /\ extFail' = [extFail EXCEPT ![p] = "none"]
    /\ log' = [log EXCEPT ![p] = << >>]
    /\ pre' = [pre EXCEPT ![p] = EmptyData]
    /\ UNCHANGED <<store, stripeVars, scen>>

(* --------------------------- specifications ---------------------------- *)
\* A request arrives in slot p.
Start(p) ==
    \/ \E u \in UserInputs : UploadStart(p, u)
    \/ \E route \in {"create", "redirect"}, u \in UserInputs : CheckoutStart(p, route, u)
    \/ \E sigOk \in BOOLEAN, type \in EventTypes, cust \in {None} \cup CustIds :
          WebhookStart(p, sigOk, type, cust)

\* The request in slot p takes its next step.
Run(p) ==
    \/ \E zip \in BOOLEAN : UploadGate(p, zip)
    \/ \E os \in OutcomeSeqs : UploadWork(p, os)
    \/ IncGet(p)
    \/ IncLoad(p)
    \/ IncSave(p)
    \/ CssLoad(p)
    \/ \E ok \in BOOLEAN : CssCustomer(p, ok)
    \/ CssSave(p)
    \/ \E ok \in BOOLEAN : CssSession(p, ok)
    \/ WebhookLoad(p)
    \/ WebhookSave(p)
    \/ Return(p)

\* Requests served concurrently: the steps of different slots interleave.
Next == \E p \in Procs : Start(p) \/ Run(p)

Spec == Init /\ [][Next]_vars

\* Requests served one at a time: a request arrives only while no other
\* request is in flight.
SeqStart(p, k) ==
    /\ \A q \in Procs : pc[q] = "idle"
    /\ \/ k = "upload" /\ \E u \in UserInputs : UploadStart(p, u)
       \/ k \in {"create", "redirect"} /\ \E u \in UserInputs : CheckoutStart(p, k, u)
       \/ k = "webhook" /\ \E sigOk \in BOOLEAN, type \in EventTypes,
                              cust \in {None} \cup CustIds :
                              WebhookStart(p, sigOk, type, cust)

SeqNext ==
    \E p \in Procs :
        \/ SeqStart(p, "upload")
        \/ SeqStart(p, "create")
        \/ SeqStart(p, "redirect")
        \/ SeqStart(p, "webhook")
        \/ Run(p)

SeqSpec == Init /\ [][SeqNext]_vars

(* ------------------------- reading the record set ---------------------- *)
\* The record set holds a record for u whose subscribed field is true.
Subscribed(d, u) ==
    /\ Has(d, u)
    /\ "subscribed" \in DOMAIN Get(d, u)
    /\ Get(d, u)["subscribed"]

\* The stripe_customer_id stored for u, None if there is none.
CustOf(d, u) == IF Has(d, u) THEN RecGet(Get(d, u), "stripe_customer_id") ELSE None

\* used as a read through get_user_record shows it (0 for a user without a
\* record); -1 stands for the KeyError of a record without the field.
ReadUsed(d, u) ==
    LET r == Get(SetDefault(d, u, DefaultRec), u)
    IN IF "used" \in DOMAIN r THEN r["used"] ELSE -1

\* used as the data model counts it: 0 until something was recorded.
UsedOf(d, u) ==
    IF Has(d, u) /\ "used" \in DOMAIN Get(d, u) THEN Get(d, u)["used"] ELSE 0

\* The positions of the records whose stripe_customer_id is c.
MatchSet(d, c) ==
    {i \in 1..Len(d) : /\ "stripe_customer_id" \in DOMAIN d[i][2]
                       /\ d[i][2]["stripe_customer_id"] = c}

\* The customers the payment processor created for the email u.
CustomersOf(u) == {i \in 1..Len(customers) : customers[i] = u}

\* Slot p passes the free-limit check of upload in this step.
GateStep(p) == pc[p] = "u_gate" /\ pc'[p] # "u_gate"

\* Slot p holds the response of a verified checkout.session.completed webhook.
WebhookDone(p) ==
    pc[p] = "done" /\ kind[p] = "webhook" /\ evType[p] = COMPLETED

(* -------------------------------- claims ------------------------------- *)
\* C1: with no concurrent writer, a read of u's record taken right after
\* increment_usage(u, n) has returned shows used equal to its value before
\* the call plus n (0 before the call when u had no record).
C1_RecordUsageAdds ==
    \A p \in Procs :
        (pc[p] = "done" /\ kind[p] = "upload" /\ result[p] = 200)
            => ReadUsed(store, user[p]) = ReadUsed(pre[p], user[p]) + count[p]

\* C2: free-quota scenario, served one request at a time for a user that
\* starts with no record: after FREE_LIMIT cycles of gate check and
\* increment_usage(u, 1) used is FREE_LIMIT; the next gate check answers
\* QuotaExceeded while the user is not subscribed and Allowed once the
\* webhook has subscribed the user.
C2_FreeQuotaScenario ==
    scen = FREE_LIMIT =>
        /\ ReadUsed(store, ScenUser) = FREE_LIMIT
        /\ \A p \in Procs :
              (kind[p] = "upload" /\ user[p] = ScenUser /\ gate[p] # "none")
                  => gate[p] = IF Subscribed(store, ScenUser)
                               THEN "Allowed" ELSE "QuotaExceeded"

\* C3: for a user that is not subscribed (no record, or a record whose
\* subscribed is not true) the gate check answers Allowed when used <
\* FREE_LIMIT and QuotaExceeded when used >= FREE_LIMIT, never anything else,
\* and a QuotaExceeded response (402) carries a checkout session.
C3_UnsubscribedGate ==
    [][\A p \in Procs :
          /\ (GateStep(p) /\ ~Subscribed(store, user[p]))
                => gate'[p] = IF UsedOf(store, user[p]) < FREE_LIMIT
                              THEN "Allowed" ELSE "QuotaExceeded"
          /\ (gate'[p] = "QuotaExceeded" /\ pc'[p] = "done")
                => (result'[p] = 402 /\ sessUrl'[p] # 0)]_vars

\* C4: for a user whose stored record has subscribed = true the gate check
\* answers Allowed, whatever used is.
C4_SubscribedAllowed ==
    [][\A p \in Procs :
          (GateStep(p) /\ Subscribed(store, user[p])) => gate'[p] = "Allowed"]_vars

\* C5: once the persisted record of a user has subscribed = true, it has
\* subscribed = true in every later state, under every interleaving.
C5_SubscribedNeverReset ==
    [][\A u \in Users : Subscribed(store, u) => Subscribed(store', u)]_vars

\* C6: once the persisted record of a user holds a stripe_customer_id, every
\* later persisted state holds the same value for that user, under every
\* interleaving.
C6_BillingAccountWriteOnce ==
    [][\A u \in Users :
          CustOf(store, u) # None => CustOf(store', u) = CustOf(store, u)]_vars

\* C7: a verified checkout.session.completed event whose customer is the
\* stripe_customer_id of exactly one stored record sets subscribed of that
\* record to true, answers 200 and changes nothing else in the record set.
C7_ConfirmMatch ==
    \A p \in Procs :
        (WebhookDone(p) /\ Cardinality(MatchSet(pre[p], evCust[p])) = 1)
            => /\ result[p] = 200
               /\ Len(store) = Len(pre[p])
               /\ \A i \in 1..Len(pre[p]) :
                     /\ store[i][1] = pre[p][i][1]
                     /\ IF i \in MatchSet(pre[p], evCust[p])
                        THEN /\ DOMAIN store[i][2] =
                                    DOMAIN pre[p][i][2] \cup {"subscribed"}
                             /\ store[i][2]["subscribed"] = TRUE
                             /\ \A k \in DOMAIN pre[p][i][2] \ {"subscribed"} :
                                    store[i][2][k] = pre[p][i][2][k]
                        ELSE store[i][2] = pre[p][i][2]

\* C7 witness: the webhook matched the second of two records, which was not
\* subscribed before.
C7_Witness ==
    \E p \in Procs :
        /\ WebhookDone(p)
        /\ Len(pre[p]) = 2
        /\ MatchSet(pre[p], evCust[p]) = {2}
        /\ ~Subscribed(pre[p], pre[p][2][1])
        /\ Subscribed(store, pre[p][2][1])

\* C8: a verified checkout.session.completed event whose customer (null
\* included) is the stripe_customer_id of no stored record leaves the record
\* set as it was and answers 200.
C8_ConfirmNoMatch ==
    \A p \in Procs :
        (WebhookDone(p) /\ MatchSet(pre[p], evCust[p]) = {})
            => (result[p] = 200 /\ store = pre[p])

\* C8 witness: a completed-checkout event with a null customer was answered
\* while two records were stored, one of them not subscribed.
C8_Witness ==
    \E p \in Procs :
        /\ WebhookDone(p)
        /\ Len(pre[p]) = 2
        /\ MatchSet(pre[p], evCust[p]) = {}
        /\ evCust[p] = None
        /\ \E u \in Users : ~Subscribed(store, u)

\* C9: calls of _create_stripe_session served one after the other create at
\* most one customer for a user and leave in the user's record the
\* stripe_customer_id the first call assigned; every call that succeeds
\* creates a new checkout session, bound to that customer, and returns it.
C9_CheckoutIdempotent ==
    /\ [](\A u \in Users :
             /\ Cardinality(CustomersOf(u)) <= 1
             /\ \A c \in CustomersOf(u) : CustOf(store, u) \in {None, c})
    /\ [][\A p \in Procs :
             (pc[p] = "css_sess" /\ pc'[p] = "done" /\ result'[p] # 500)
                => /\ Len(stripeSessions') = Len(stripeSessions) + 1
                   /\ sessUrl'[p] = Len(stripeSessions')
                   /\ stripeSessions'[sessUrl'[p]] = CustOf(store, user[p])]_vars

\* C9 witness: the second call for a user has returned the second session,
\* bound to the customer the first call created.
C9_Witness ==
    \E p \in Procs :
        /\ pc[p] = "done"
        /\ kind[p] \in {"create", "redirect"}
        /\ sessUrl[p] = 2
        /\ stripeSessions[1] = stripeSessions[2]
        /\ CustomersOf(user[p]) = {stripeSessions[1]}
        /\ CustOf(store, user[p]) = stripeSessions[1]
        /\ CustOf(pre[p], user[p]) = stripeSessions[1]

\* The record set d after the customer c was stored for the user u.
WithCustomer(d, u, c) ==
    LET e == SetDefault(d, u, EmptyRec)
    IN PutRec(e, u, SetKey(Get(e, u), "stripe_customer_id", c))

\* C10 as stated: whenever a payment-processor call or the LLM refactor call
\* fails during a request, the request ends in failure and the persisted
\* record set after the request equals the one before it.
C10_FailureLeavesStore ==
    \A p \in Procs :
        (pc[p] = "done" /\ extFail[p] # "none")
            => (result[p] >= 400 /\ store = pre[p])

\* C10 amended: when the customer creation fails, or the LLM refactor fails
\* and no file of the upload is refactored, the request ends in failure and
\* the record set is the one before the request; when the checkout-session
\* creation fails the request ends in failure and the record set is the one
\* before the request, except that a stripe_customer_id created earlier in
\* the same request stays stored in the user's record.
C10_FailureAmended ==
    \A p \in Procs :
        pc[p] = "done" =>
            /\ extFail[p] = "customer" => (result[p] = 500 /\ store = pre[p])
            /\ (extFail[p] = "llm" /\ count[p] = 0)
                  => (result[p] = 500 /\ store = pre[p])
            /\ extFail[p] = "session" =>
                  /\ result[p] = 500
                  /\ \/ store = pre[p]
                     \/ /\ CustOf(pre[p], user[p]) = None
                        /\ \E c \in CustomersOf(user[p]) :
                              store = WithCustomer(pre[p], user[p], c)

\* C10 witness: the session creation failed after the customer of a user
\* without a record had been created and stored.
C10_Witness ==
    \E p \in Procs :
        /\ pc[p] = "done"
        /\ extFail[p] = "session"
        /\ ~Has(pre[p], user[p])
        /\ CustOf(store, user[p]) # None

\* The routes that take a user identity.
IdentityKinds == {"upload", "create", "redirect"}

\* C11: an upload, create-checkout-session or checkout request without a user
\* identity is answered 400 in the step in which it arrives: usage.json is
\* not read, no record is created, the payment processor is not called, and
\* usage.json, the customers and the checkout sessions stay what they were.
C11_MissingIdentity ==
    /\ [](\A p \in Procs :
            (kind[p] \in IdentityKinds /\ user[p] = NoUser)
                => (pc[p] = "done" /\ result[p] = 400 /\ log[p] = << >>
                    /\ data[p] = EmptyData /\ store = pre[p]))
    /\ [][\A p \in Procs :
            (pc[p] = "idle" /\ kind'[p] \in IdentityKinds /\ user'[p] = NoUser)
                => (pc'[p] = "done" /\ result'[p] = 400 /\ log'[p] = << >>
                    /\ UNCHANGED <<store, customers, stripeSessions>>)]_vars

\* C11 witness: a request without identity was answered 400 while usage.json
\* held a record and the payment processor held a customer.
C11_Witness ==
    \E p \in Procs :
        /\ pc[p] = "done"
        /\ kind[p] \in IdentityKinds
        /\ user[p] = NoUser
        /\ result[p] = 400
        /\ store # EmptyData
        /\ Len(customers) > 0

\* C12: a webhook request whose signature fails verification is answered 400
\* in the step in which it arrives, before usage.json is loaded; usage.json
\* is not rewritten and stays what it was, whatever the event type and the
\* customer of the payload.
C12_BadSignature ==
    /\ [](\A p \in Procs :
            (kind[p] = "webhook" /\ evType[p] = "none")
                => (pc[p] = "done" /\ result[p] = 400 /\ log[p] = << >>
                    /\ data[p] = EmptyData /\ store = pre[p]))
    /\ [][\A p \in Procs :
            (pc[p] = "idle" /\ kind'[p] = "webhook" /\ evType'[p] = "none")
                => (pc'[p] = "done" /\ result'[p] = 400 /\ log'[p] = << >>
                    /\ UNCHANGED <<store, customers, stripeSessions>>)]_vars

\* C12 witness: a webhook with a bad signature was answered 400 while
\* usage.json held an unsubscribed record with a customer.
C12_Witness ==
    \E p \in Procs :
        /\ pc[p] = "done"
        /\ kind[p] = "webhook"
        /\ evType[p] = "none"
        /\ result[p] = 400
        /\ \E u \in Users : CustOf(store, u) # None /\ ~Subscribed(store, u)

\* C13: once a request has passed its user id to the gate of upload or to
\* _create_stripe_session and has been answered, usage.json holds a record
\* under that user id.
C13_KeySet ==
    \A p \in Procs :
        (pc[p] = "done" /\ kind[p] \in IdentityKinds /\ log[p] # << >>)
            => user[p] \in Keys(store)

\* The fields a record of usage.json may have.
RecordFields == {"used", "subscribed", "stripe_customer_id"}

\* C14: every record of usage.json has an integer used >= 0 and a boolean
\* subscribed; stripe_customer_id is the only other field it may have.
C14_WellFormed ==
    \A u \in Keys(store) :
        LET r == Get(store, u)
        IN /\ DOMAIN r \subseteq RecordFields
           /\ "used" \in DOMAIN r
           /\ r["used"] \in Nat
           /\ "subscribed" \in DOMAIN r
           /\ r["subscribed"] \in BOOLEAN

\* Slot p has called increment_usage.
Recorded(p) == \E i \in 1..Len(log[p]) : log[p][i] = "record"

\* C15: the step of upload that takes the gate decision leaves usage.json as
\* it was; the stored used of a user changes only in the save of
\* increment_usage; and increment_usage is only called by an upload that
\* passed the gate and refactored at least one file.
C15_GateReadOnly ==
    /\ [](\A p \in Procs :
            Recorded(p) => /\ kind[p] = "upload"
                           /\ gate[p] = "Allowed"
                           /\ count[p] > 0
                           /\ \E i \in 1..Len(outs[p]) : outs[p][i] = "text")
    /\ [][/\ \A p \in Procs : GateStep(p) => store' = store
          /\ (\E u \in Users : UsedOf(store', u) # UsedOf(store, u))
                => \E p \in Procs : pc[p] = "inc_save" /\ pc'[p] = "done"]_vars

\* C15 witness: an upload passed the gate, refactored a file and recorded
\* its usage while usage.json held a record.
C15_Witness ==
    \E p \in Procs :
        /\ pc[p] = "done"
        /\ result[p] = 200
        /\ gate[p] = "Allowed"
        /\ Recorded(p)
        /\ store # EmptyData

\* Slot p creates a checkout session in this step.
SessionStep(p) ==
    /\ pc[p] = "css_sess"
    /\ pc'[p] = "done"
    /\ Len(stripeSessions') = Len(stripeSessions) + 1

\* Slot p created a customer in this request.
CreatedCustomer(p) == \E i \in 1..Len(log[p]) : log[p][i] = "customer"

\* C16: when _create_stripe_session creates the checkout session, a customer
\* it created in the same call has been saved to usage.json before, and the
\* customer of the session is the stripe_customer_id that usage.json holds
\* for the user.
C16_PersistBeforeSession ==
    [][\A p \in Procs :
          SessionStep(p) =>
              /\ CreatedCustomer(p) => log[p][Len(log[p])] = "save"
              /\ CustOf(store, user[p]) # None
              /\ stripeSessions'[Len(stripeSessions')] = CustOf(store, user[p])]_vars

(* ------------------------ the race on the quota ------------------------ *)
\* The interleavings of Spec in which every slot serves one upload of
\* ScenUser, no upload calls increment_usage before every upload has passed
\* the gate, and the calls of increment_usage run one after the other.
RaceStart(p) == UploadStart(p, ScenUser)

RaceRecord(p) ==
    /\ \A q \in Procs \ {p} : pc[q] \in {"u_work", "inc_get", "done"}
    /\ IncGet(p)

RaceNext ==
    \E p \in Procs :
        \/ RaceStart(p)
        \/ \E zip \in BOOLEAN : UploadGate(p, zip)
        \/ \E os \in OutcomeSeqs : UploadWork(p, os)
        \/ RaceRecord(p)
        \/ IncLoad(p)
        \/ IncSave(p)

RaceSpec == Init /\ [][RaceNext]_vars

\* The files that the uploads in the slots S refactored.
RECURSIVE SumCounts(_)
SumCounts(S) ==
    IF S = {} THEN 0
    ELSE LET p == CHOOSE x \in S : TRUE
         IN count[p] + SumCounts(S \ {p})

\* C17: when concurrent uploads of the same unsubscribed user have all
\* passed the gate before any of them recorded its usage, and their amounts
\* together exceed FREE_LIMIT (as they do on top of used = FREE_LIMIT - 1),
\* then after all of them have recorded, the stored used of the user
\* exceeds FREE_LIMIT.
C17_QuotaOvershoot ==
    (/\ \A p \in Procs : /\ pc[p] = "done"
                         /\ user[p] = ScenUser
                         /\ gate[p] = "Allowed"
                         /\ result[p] = 200
                         /\ Recorded(p)
     /\ ~Subscribed(store, ScenUser)
     /\ SumCounts(Procs) > FREE_LIMIT)
        => UsedOf(store, ScenUser) > FREE_LIMIT

\* Slot p holds a verified webhook event of another type than
\* checkout.session.completed.
OtherEvent(p) == kind[p] = "webhook" /\ evType[p] \notin {"none", COMPLETED}

\* C18: a verified webhook event of another type than
\* checkout.session.completed is answered 200 in the step in which it
\* arrives; usage.json is neither loaded nor saved and stays what it was;
\* and a step after which a record is subscribed that was not before is the
\* save of a checkout.session.completed webhook.
C18_OtherEventsIgnored ==
    /\ [](\A p \in Procs :
            OtherEvent(p) => (pc[p] = "done" /\ result[p] = 200 /\ log[p] = << >>
                              /\ data[p] = EmptyData /\ store = pre[p]))
    /\ [][/\ \A p \in Procs :
               (pc[p] = "idle" /\ OtherEvent(p)')
                   => (pc'[p] = "done" /\ result'[p] = 200 /\ log'[p] = << >>
                       /\ UNCHANGED <<store, customers, stripeSessions>>)
          /\ (\E u \in Users : ~Subscribed(store, u) /\ Subscribed(store', u))
                => \E p \in Procs : /\ pc[p] = "w_save"
                                    /\ pc'[p] = "done"
                                    /\ evType[p] = COMPLETED]_vars

\* C18 witness: an event of another type was answered 200 while usage.json
\* held an unsubscribed record with a customer.
C18_Witness ==
    \E p \in Procs :
        /\ pc[p] = "done"
        /\ OtherEvent(p)
        /\ result[p] = 200
        /\ \E u \in Users : CustOf(store, u) # None /\ ~Subscribed(store, u)

\* The .js/.jsx files of slot p's archive for which _refactor returned text.
Refactored(p) == {i \in 1..Len(outs[p]) : outs[p][i] = "text"}

\* The calls of increment_usage that slot p made.
RecordCalls(p) == {i \in 1..Len(log[p]) : log[p][i] = "record"}

====
